---- MODULE Spec2Model ----
(***************************************************************************)
(* Reminder delivery and subscription/trial state of the assistant bot.    *)
(*                                                                         *)
(* Three drafts of the bot live in the repository and are modelled side by *)
(* side; the variable draft says which of them is the running program:     *)
(*   "A"  src/bot.py: ChatDatabase and the periodic sweep check_reminders; *)
(*   "B"  src/telegram-bot/src/database.py, reminder.py: the paid-period   *)
(*        ledger update_subscription / check_subscription;                 *)
(*   "C"  src/telegram-bot/src/life_assistant_bot_full_project.py: one     *)
(*        one-shot timer per reminder, and the one-time trial.             *)
(* DeliverySpec runs the reminders of A and C, LedgerSpec the subscription *)
(* operations of B and C, TrialSpec the subscribe handlers of C.           *)
(* TimerFair is draft C's timers under fair scheduling of the job queue.   *)
(* AccessSpec adds the gated handlers to the subscription operations,      *)
(* CreateSpec and DeleteSpec run the creating and the deleting calls of the *)
(* three drafts, LifecycleSpec all that happens to a reminder row,          *)
(* OverlapSpec two sweep tasks of A side by side, ParseSpec and RequestSpec *)
(* A's parser and its create handler on typed phrases.                      *)
(*                                                                         *)
(* Time is counted in minutes of the process's wall clock.  A timestamp is *)
(* a record [t |-> minutes, us |-> TRUE iff its microsecond field is not   *)
(* zero]; a timestamp with us = TRUE lies strictly inside minute t.        *)
(*                                                                         *)
(* Text is a sequence of one-character strings.  Cyrillic letters are      *)
(* written with one ASCII letter each, so that lengths, prefixes and       *)
(* substrings are those of the original text:                              *)
(*   ch->c  e->e  r->r  z->z  m->m  i->i  n->n  u->u  t->t  a->a  s->s     *)
(*   d->d  soft sign->q  ya->y  short i->j  v->v                           *)
(***************************************************************************)
EXTENDS Integers, Sequences, FiniteSets, TLC

VARIABLES
    draft,        \* which draft of the bot is the running program: "A", "B", "C"
    now,          \* wall clock of the process, minutes (datetime.now()/utcnow())
    tz,           \* A: local time minus UTC, minutes (host configuration)
    reminders,    \* the reminders table: id -> row
    nextId,       \* AUTOINCREMENT counter of the reminders table
    user_data,    \* A: context.user_data['reminder_time'] per user
    passes,       \* A: check_reminders tasks: slot -> [state, queue]
    jobs,         \* C: the job queue's one-shot jobs: reminder id -> job
    users,        \* B, C: the users table: user id -> row
    is_postgres,  \* B: DATABASE_URL names a PostgreSQL server (Database.is_postgres)
    sent,         \* history: messages delivered per reminder id
    failed,       \* history: the reminder ids a send has failed for
    deleted,      \* history: id -> due minute of the rows their owner deleted
    startup,      \* history of the last process start (see Restart)
    trials,       \* history: trial periods written per user
    last          \* history: the last subscription operation and its outcome

vars == <<draft, now, tz, reminders, nextId, user_data, passes, jobs, users,
          is_postgres, sent, failed, deleted, startup, trials, last>>

\* the variables of the reminders, and those of the subscriptions
subVars == <<users, is_postgres, trials, last>>
remVars == <<tz, reminders, nextId, user_data, passes, jobs, sent, failed,
             deleted, startup>>

-----------------------------------------------------------------------------
(* Bounds of the model *)

\* reminders created in a run
MaxReminders == 2
\* the last minute of the clock while reminders wait, and the step of that clock
MaxTime == 1200
TickMinutes == 60
\* messages delivered in a run, over all reminders
MaxSent == 2
\* the step of the clock while subscriptions run, days, and its last day
TickDays == 20
MaxDays == 80
\* the longest paid period bought at once, months
MaxMonths == 1
\* trial periods written for one user
MaxTrials == 2

(* Program constants *)

\* the user id the deployment names as administrator (ADMIN_ID)
ADMIN_ID == 1

\* the length of the trial period, days (TRIAL_DAYS)
TRIAL_DAYS == 30

Minute == 1
Hour == 60
Day == 1440

\* Python's None, and the outcome of a call that raised inside a try block
None == [none |-> TRUE]

\* the integer outcome of a conversion that raised ValueError
NoInt == 0 - 1

\* the users who create reminders, and the users who call delete_reminder
Users == {1}
Callers == {1, 2}
Passes == {1}
RemIds == 1..MaxReminders
StartTimes == {1080}
TzOffsets == {0, 120}
Drafts == {"A", "B", "C"}
Subscribers == {1, 2}

-----------------------------------------------------------------------------
(* Text helpers: str.startswith, `in`, str.split, str.strip, str.lower,    *)
(* filter(str.isdigit), int()                                              *)

DigitChars == {"0", "1", "2", "3", "4", "5", "6", "7", "8", "9"}

DigitVal(c) ==
    CASE c = "0" -> 0 [] c = "1" -> 1 [] c = "2" -> 2 [] c = "3" -> 3
      [] c = "4" -> 4 [] c = "5" -> 5 [] c = "6" -> 6 [] c = "7" -> 7
      [] c = "8" -> 8 [] c = "9" -> 9

LowerChar(c) ==
    CASE c = "C" -> "c" [] c = "Z" -> "z" [] c = "D" -> "d" [] c = "M" -> "m"
      [] OTHER -> c

Lower(s) == [i \in 1..Len(s) |-> LowerChar(s[i])]

RECURSIVE LStrip(_)
LStrip(s) == IF s # <<>> /\ Head(s) = " " THEN LStrip(Tail(s)) ELSE s

RECURSIVE RStrip(_)
RStrip(s) ==
    IF s # <<>> /\ s[Len(s)] = " " THEN RStrip(SubSeq(s, 1, Len(s) - 1)) ELSE s

Strip(s) == RStrip(LStrip(s))

StartsWith(s, p) == Len(s) >= Len(p) /\ SubSeq(s, 1, Len(p)) = p

Contains(s, p) ==
    \E i \in 1..(Len(s) - Len(p) + 1) : SubSeq(s, i, i + Len(p) - 1) = p

\* str.split(): the maximal runs of non-blank characters
RECURSIVE SplitFrom(_, _, _)
SplitFrom(s, cur, acc) ==
    IF s = <<>> THEN (IF cur = <<>> THEN acc ELSE Append(acc, cur))
    ELSE IF Head(s) = " "
         THEN SplitFrom(Tail(s), <<>>, IF cur = <<>> THEN acc ELSE Append(acc, cur))
         ELSE SplitFrom(Tail(s), Append(cur, Head(s)), acc)

Split(s) == SplitFrom(s, <<>>, <<>>)

IsDigit(c) == c \in DigitChars

FilterDigits(w) == SelectSeq(w, IsDigit)

\* int(): NoInt stands for the ValueError of int('')
RECURSIVE IntOfDigits(_, _)
IntOfDigits(ds, acc) ==
    IF ds = <<>> THEN acc ELSE IntOfDigits(Tail(ds), 10 * acc + DigitVal(Head(ds)))

ParseInt(ds) == IF ds = <<>> THEN NoInt ELSE IntOfDigits(ds, 0)

\* str.replace(old, '') for the first and every further occurrence
RECURSIVE RemoveAll(_, _)
RemoveAll(s, p) ==
    IF s = <<>> THEN <<>>
    ELSE IF StartsWith(s, p) THEN RemoveAll(SubSeq(s, Len(p) + 1, Len(s)), p)
    ELSE <<Head(s)>> \o RemoveAll(Tail(s), p)

-----------------------------------------------------------------------------
(* Keywords of the time phrases, one ASCII letter per Cyrillic letter *)

W_cerez == <<"c", "e", "r", "e", "z">>
W_minut == <<"m", "i", "n", "u", "t">>
W_cas == <<"c", "a", "s">>
W_denq == <<"d", "e", "n", "q">>
W_dny == <<"d", "n", "y">>
W_dnej == <<"d", "n", "e", "j">>
W_zavtra == <<"z", "a", "v", "t", "r", "a">>

(* Timestamps *)

TS(t, us) == [t |-> t, us |-> us]

\* a < b on datetimes; two timestamps inside the same minute compare by us
TsLess(a, b) == a.t < b.t \/ (a.t = b.t /\ ~a.us /\ b.us)

TsLeq(a, b) == a.t < b.t \/ (a.t = b.t /\ (~a.us \/ b.us))

\* datetime.strptime(s, '%H:%M'): [h, m] or None (ValueError)
TwoDigitsMax(w, max) ==
    /\ Len(w) \in {1, 2}
    /\ \A i \in 1..Len(w) : IsDigit(w[i])
    /\ IntOfDigits(w, 0) <= max

Strptime_HM(s) ==
    IF \E i \in 1..Len(s) :
          /\ s[i] = ":"
          /\ TwoDigitsMax(SubSeq(s, 1, i - 1), 23)
          /\ TwoDigitsMax(SubSeq(s, i + 1, Len(s)), 59)
    THEN LET i == CHOOSE i \in 1..Len(s) :
                    /\ s[i] = ":"
                    /\ TwoDigitsMax(SubSeq(s, 1, i - 1), 23)
                    /\ TwoDigitsMax(SubSeq(s, i + 1, Len(s)), 59)
         IN [h |-> IntOfDigits(SubSeq(s, 1, i - 1), 0),
             m |-> IntOfDigits(SubSeq(s, i + 1, Len(s)), 0)]
    ELSE None

\* The calendar is January 2024: minute 0 is 2024-01-01 00:00.
\* '%Y-%m-%d' of a date text: the day index, or NoInt (ValueError).
Strptime_Date(d) ==
    IF /\ Len(d) \in 8..10
       /\ SubSeq(d, 1, 5) = <<"2", "0", "2", "4", "-">>
       /\ \E i \in 7..8 :
            /\ i <= Len(d) /\ d[i] = "-"
            /\ TwoDigitsMax(SubSeq(d, 6, i - 1), 1)
            /\ IntOfDigits(SubSeq(d, 6, i - 1), 0) = 1
            /\ TwoDigitsMax(SubSeq(d, i + 1, Len(d)), 31)
            /\ IntOfDigits(SubSeq(d, i + 1, Len(d)), 0) >= 1
    THEN LET i == CHOOSE i \in 7..8 : i <= Len(d) /\ d[i] = "-"
         IN IntOfDigits(SubSeq(d, i + 1, Len(d)), 0) - 1
    ELSE NoInt

\* datetime.strptime(s, '%Y-%m-%d %H:%M')
Strptime_Full(s) ==
    LET ws == Split(s) IN
    IF Len(ws) # 2 THEN None
    ELSE LET d == Strptime_Date(ws[1])
             hm == Strptime_HM(ws[2])
         IN IF d = NoInt \/ hm = None THEN None
            ELSE TS(d * Day + hm.h * Hour + hm.m * Minute, FALSE)

\* a relative time counted from the midnight of today, not from now
RelativeTimeFromMidnight(parts, nowTs, unit) ==
    IF Len(parts) < 2 THEN None
    ELSE LET n == ParseInt(FilterDigits(parts[2]))
         IN IF n = NoInt THEN None ELSE TS((nowTs.t \div Day) * Day + n * unit, FALSE)

\* `int(''.join(filter(str.isdigit, parts[1])))` then `now + timedelta(unit=n)`;
\* a missing parts[1] (IndexError) and an empty digit run (ValueError) end in None
RelativeTime(parts, nowTs, unit) ==
    IF Len(parts) < 2 THEN None
    ELSE LET n == ParseInt(FilterDigits(parts[2]))
         IN IF n = NoInt THEN None ELSE TS(nowTs.t + n * unit, nowTs.us)

\* now.replace(hour, minute, second=0, microsecond=0)
AtTimeOfDay(nowTs, hm) == TS((nowTs.t \div Day) * Day + hm.h * Hour + hm.m * Minute, FALSE)

\* a parser that takes whatever it cannot read as `now`
parse_or_now(time_str, nowTs) == nowTs

parse_reminder_time(time_str, nowTs) ==
    LET s == Strip(Lower(time_str)) IN
    IF StartsWith(s, W_cerez)
    THEN LET parts == Split(s) IN
         IF Contains(s, W_minut) THEN RelativeTime(parts, nowTs, Minute)
         ELSE IF Contains(s, W_cas) THEN RelativeTime(parts, nowTs, Hour)
         ELSE IF Contains(s, W_denq) \/ Contains(s, W_dny) \/ Contains(s, W_dnej)
              THEN RelativeTime(parts, nowTs, Day)
         ELSE None
    ELSE IF Contains(s, <<":">>)
    THEN IF Len(s) = 5
         THEN LET hm == Strptime_HM(s) IN
              IF hm = None THEN None
              ELSE LET rt == AtTimeOfDay(nowTs, hm) IN
                   IF TsLess(rt, nowTs) THEN TS(rt.t + Day, FALSE) ELSE rt
         ELSE Strptime_Full(s)
    ELSE IF StartsWith(s, W_zavtra)
    THEN LET time_part == Strip(RemoveAll(s, W_zavtra)) IN
         IF Contains(time_part, <<":">>)
         THEN LET hm == Strptime_HM(time_part) IN
              IF hm = None THEN None
              ELSE TS(((nowTs.t \div Day) + 1) * Day + hm.h * Hour + hm.m * Minute, FALSE)
         ELSE None
    ELSE None

(* The phrases the handlers of src/bot.py hand to the parser *)

T_cerez_1_cas == W_cerez \o <<" ", "1", " ">> \o W_cas
T_cerez_2_casa == W_cerez \o <<" ", "2", " ">> \o W_cas \o <<"a">>
T_zavtra_09 == W_zavtra \o <<" ", "0", "9", ":", "0", "0">>
T_zavtra_10 == W_zavtra \o <<" ", "1", "0", ":", "0", "0">>
T_zavtra_18 == W_zavtra \o <<" ", "1", "8", ":", "0", "0">>
T_1830 == <<"1", "8", ":", "3", "0">>

\* button_handler's time_mapping
time_mapping ==
    [time_1h |-> T_cerez_1_cas, time_2h |-> T_cerez_2_casa,
     time_tomorrow_9 |-> T_zavtra_09, time_tomorrow_18 |-> T_zavtra_18]

\* the buttons pressed and the phrases spoken in the model
TimeButtons == {"time_1h", "time_custom"}

\* process_voice_command's choice of the time phrase from what was said
VoiceTimes == {T_zavtra_10, T_1830}

-----------------------------------------------------------------------------
(* src/bot.py: ChatDatabase, the reminders table *)

\* sqlite3's adapter of a datetime parameter: isoformat(" "), which writes the
\* fraction ".ffffff" exactly when the microsecond field is not zero
adapt_datetime(ts) == [minute |-> ts.t, fraction |-> ts.us]

\* datetime.strptime(text, '%Y-%m-%d %H:%M:%S'): None (ValueError) on a fraction
Strptime_Stored(text) == IF text.fraction THEN None ELSE TS(text.minute, FALSE)

\* the order of two stored texts, as SQLite compares them
TextLess(a, b) ==
    a.minute < b.minute \/ (a.minute = b.minute /\ ~a.fraction /\ b.fraction)

create_reminder(rs, id, chat_id, user_id, reminder_time) ==
    [i \in (DOMAIN rs) \cup {id} |->
        IF i = id
        THEN [chat_id |-> chat_id, user_id |-> user_id,
              time |-> adapt_datetime(reminder_time),
              is_completed |-> FALSE, is_active |-> TRUE]
        ELSE rs[i]]

\* a query that leaves out the is_active and is_completed conditions
AllDue(rs, utcNow) == {i \in DOMAIN rs : rs[i].time.minute <= utcNow + Hour}

\* the rows of the sweep's query (chat_id absent), before ORDER BY
ActiveDue(rs, utcNow) ==
    {i \in DOMAIN rs :
        /\ rs[i].is_active
        /\ ~rs[i].is_completed
        /\ rs[i].time.minute <= utcNow + Hour}

RECURSIVE OrderByTime(_, _)
OrderByTime(rs, ids) ==
    IF ids = {} THEN <<>>
    ELSE LET first == CHOOSE i \in ids :
                \A j \in ids \ {i} :
                    \/ TextLess(rs[i].time, rs[j].time)
                    \/ (~TextLess(rs[j].time, rs[i].time) /\ i < j)
         IN <<[id |-> first, chat_id |-> rs[first].chat_id, time |-> rs[first].time]>>
            \o OrderByTime(rs, ids \ {first})

get_active_reminders(rs, utcNow) == OrderByTime(rs, ActiveDue(rs, utcNow))

complete_reminder(rs, id) ==
    [i \in DOMAIN rs |->
        IF i = id THEN [rs[i] EXCEPT !.is_completed = TRUE, !.is_active = FALSE]
        ELSE rs[i]]

\* the ids the DELETE statement removes
DeleteMatches(rs, id, user_id) == {i \in DOMAIN rs : i = id /\ rs[i].user_id = user_id}

\* a delete that removes nothing
keep_reminder(rs, id, user_id) == rs

delete_reminder(rs, id, user_id) ==
    [i \in (DOMAIN rs) \ DeleteMatches(rs, id, user_id) |-> rs[i]]

-----------------------------------------------------------------------------
(* src/bot.py: check_reminders, one task per firing of reminder_worker.     *)
(* The task gives up control only at `await context.bot.send_message`, so   *)
(* it runs in segments: from its start to the first send, and from the end  *)
(* of one send to the next.                                                 *)

IdlePass == [state |-> "idle", queue |-> <<>>]

\* check_reminders without its comparison of the row's time with the clock:
\* every row the query returned is sent
RunToSendAll(q, nowT) ==
    IF q = <<>> THEN [pass |-> IdlePass, ended |-> "done"]
    ELSE IF Strptime_Stored(Head(q).time) = None
         THEN [pass |-> IdlePass, ended |-> "error"]
         ELSE [pass |-> [state |-> "sending", queue |-> q], ended |-> "no"]

\* the for loop of check_reminders from the head of q up to the next await:
\* a row whose time is not read back raises and ends the pass ("error"), a
\* row not yet due is passed over, a due row is sent
RECURSIVE RunToSend(_, _)
RunToSend(q, nowT) ==
    IF q = <<>> THEN [pass |-> IdlePass, ended |-> "done"]
    ELSE LET reminder_time == Strptime_Stored(Head(q).time) IN
         IF reminder_time = None THEN [pass |-> IdlePass, ended |-> "error"]
         ELSE IF reminder_time.t <= nowT
              THEN [pass |-> [state |-> "sending", queue |-> q], ended |-> "no"]
              ELSE RunToSend(Tail(q), nowT)

\* History of the sends: the messages delivered so far, over all reminders
RECURSIVE Delivered(_, _)
Delivered(s, n) == IF n = 0 THEN 0 ELSE s[n] + Delivered(s, n - 1)

\* History of a process start.  due: the not-completed reminders whose time had
\* passed when the process started, until the first pass that began after the
\* start has gone through its rows (to their end, or to a row it cannot read);
\* missed: the reminders of due that had no message and were still stored then.
NoteEnd(st, ended, sentNow, rs) ==
    IF st.first = "pending" /\ ended \in {"done", "error"}
    THEN [due |-> {}, first |-> "ended",
          missed |-> {r \in st.due : sentNow[r] = 0 /\ r \in DOMAIN rs}]
    ELSE st

\* History of the deletes: an owner's call that returned leaves the due minute
\* of the row it named
NoteDelete(rs, id, u, due) ==
    IF id \in DOMAIN rs /\ rs[id].user_id = u
    THEN [i \in (DOMAIN deleted) \cup {id} |-> IF i = id THEN due ELSE deleted[i]]
    ELSE deleted

Init ==
    /\ draft \in Drafts
    /\ now \in StartTimes
    /\ tz \in IF draft = "A" THEN TzOffsets ELSE {0}
    /\ reminders = <<>>
    /\ nextId = 1
    /\ user_data = [u \in Users |-> <<>>]
    /\ passes = [p \in Passes |-> IdlePass]
    /\ jobs = <<>>
    /\ users = <<>>
    /\ is_postgres \in IF draft = "B" THEN BOOLEAN ELSE {FALSE}
    /\ sent = [r \in RemIds |-> 0]
    /\ failed = {}
    /\ deleted = <<>>
    /\ startup = [due |-> {}, first |-> "pending", missed |-> {}]
    /\ trials = [u \in Subscribers |-> 0]
    /\ last = None

\* the clock goes on while reminders wait
Tick ==
    /\ now + TickMinutes <= MaxTime
    /\ now' = now + TickMinutes
    /\ UNCHANGED <<draft, tz, reminders, nextId, user_data, passes, jobs, sent,
                   failed, deleted, startup>>
    /\ UNCHANGED subVars

\* button_handler, the branch query.data.startswith("time_")
TimeButton(u, b) ==
    /\ draft = "A"
    /\ user_data' = [user_data EXCEPT
                        ![u] = IF b \in DOMAIN time_mapping THEN time_mapping[b] ELSE @]
    /\ UNCHANGED <<draft, now, tz, reminders, nextId, passes, jobs, sent, failed,
                   deleted, startup>>
    /\ UNCHANGED subVars

\* what both creating handlers do with the phrase: parse, then create_reminder
\* when the parser returned a time; dbOk = FALSE is create_reminder's except branch
CreateFrom(u, phrase, us, dbOk) ==
    LET reminder_time_obj == parse_reminder_time(phrase, TS(now, us)) IN
    IF reminder_time_obj # None /\ dbOk
    THEN /\ reminders' = create_reminder(reminders, nextId, u, u, reminder_time_obj)
         /\ nextId' = nextId + 1
    ELSE UNCHANGED <<reminders, nextId>>

\* reminder_text_handler: the conversation is in REMINDER_TEXT for user u
ReminderText(u, us, dbOk) ==
    /\ draft = "A"
    /\ user_data[u] # <<>>
    /\ nextId <= MaxReminders
    /\ CreateFrom(u, user_data[u], us, dbOk)
    /\ user_data' = [user_data EXCEPT ![u] = <<>>]
    /\ UNCHANGED <<draft, now, tz, passes, jobs, sent, failed, deleted, startup>>
    /\ UNCHANGED subVars

\* process_voice_command, the reminder branch
VoiceReminder(u, phrase, us, dbOk) ==
    /\ draft = "A"
    /\ nextId <= MaxReminders
    /\ CreateFrom(u, phrase, us, dbOk)
    /\ UNCHANGED <<draft, now, tz, user_data, passes, jobs, sent, failed, deleted,
                   startup>>
    /\ UNCHANGED subVars

\* ChatDatabase.delete_reminder(reminder_id, user_id)
DeleteReminder(id, u) ==
    /\ draft = "A"
    /\ id < nextId
    /\ reminders' = delete_reminder(reminders, id, u)
    /\ deleted' = NoteDelete(reminders, id, u,
                             IF id \in DOMAIN reminders THEN reminders[id].time.minute
                             ELSE NoInt)
    /\ UNCHANGED <<draft, now, tz, nextId, user_data, passes, jobs, sent, failed,
                   startup>>
    /\ UNCHANGED subVars

\* reminder_worker starts check_reminders; dbOk = FALSE is the except branch of
\* get_active_reminders, which returns []
SweepStart(p, dbOk) ==
    /\ draft = "A"
    /\ passes[p].state = "idle"
    /\ LET run == IF dbOk THEN RunToSend(get_active_reminders(reminders, now - tz), now)
                  ELSE [pass |-> IdlePass, ended |-> "dbfail"]
       IN /\ passes' = [passes EXCEPT ![p] = run.pass]
          /\ startup' = NoteEnd(startup, run.ended, sent, reminders)
    /\ UNCHANGED <<draft, now, tz, reminders, nextId, user_data, jobs, sent, failed,
                   deleted>>
    /\ UNCHANGED subVars

\* send_message returned: complete_reminder (dbOk = FALSE: its except branch,
\* the row stays as it was), then the loop goes on
SendOk(p, dbOk) ==
    /\ draft = "A"
    /\ passes[p].state = "sending"
    /\ LET r == Head(passes[p].queue)
           run == RunToSend(Tail(passes[p].queue), now)
       IN /\ Delivered(sent, MaxReminders) < MaxSent
          /\ sent' = [sent EXCEPT ![r.id] = @ + 1]
          /\ reminders' = IF dbOk THEN complete_reminder(reminders, r.id) ELSE reminders
          /\ passes' = [passes EXCEPT ![p] = run.pass]
          /\ startup' = NoteEnd(startup, run.ended, sent', reminders')
    /\ UNCHANGED <<draft, now, tz, nextId, user_data, jobs, failed, deleted>>
    /\ UNCHANGED subVars

\* a sweep that marks the reminder completed although send_message raised
SendFailCompletes(p) ==
    /\ draft = "A"
    /\ passes[p].state = "sending"
    /\ failed' = failed \cup {Head(passes[p].queue).id}
    /\ reminders' = complete_reminder(reminders, Head(passes[p].queue).id)
    /\ passes' = [passes EXCEPT ![p] = IdlePass]
    /\ UNCHANGED <<draft, now, tz, nextId, user_data, jobs, sent, deleted, startup>>
    /\ UNCHANGED subVars

\* send_message raised: the outer except ends the pass
SendFail(p) ==
    /\ draft = "A"
    /\ passes[p].state = "sending"
    /\ failed' = failed \cup {Head(passes[p].queue).id}
    /\ passes' = [passes EXCEPT ![p] = IdlePass]
    /\ UNCHANGED <<draft, now, tz, reminders, nextId, user_data, jobs, sent, deleted,
                   startup>>
    /\ UNCHANGED subVars

\* the process stops and main() runs again: tasks and user_data are gone, the
\* database file stays
Restart ==
    /\ draft = "A"
    /\ passes' = [p \in Passes |-> IdlePass]
    /\ user_data' = [u \in Users |-> <<>>]
    /\ startup' = [due |-> {i \in DOMAIN reminders :
                              /\ ~reminders[i].is_completed
                              /\ reminders[i].time.minute < now},
                   first |-> "pending", missed |-> {}]
    /\ UNCHANGED <<draft, now, tz, reminders, nextId, jobs, sent, failed, deleted>>
    /\ UNCHANGED subVars

-----------------------------------------------------------------------------
(* src/telegram-bot/src/life_assistant_bot_full_project.py: the reminders   *)
(* table of Database and the one-shot jobs of ReminderManager               *)

\* datetime.isoformat() and datetime.fromisoformat(): the text keeps the
\* fraction of a second, and the reader takes it back
isoformat(ts) == [minute |-> ts.t, fraction |-> ts.us]

fromisoformat(text) == TS(text.minute, text.fraction)

\* ' '.join(context.args[-2:])
JoinLastTwo(args) == args[Len(args) - 1] \o <<" ">> \o args[Len(args)]

\* the arguments of /reminders in the model: a text word, a date and a time
A_text == <<"a">>
A_date == <<"2", "0", "2", "4", "-", "0", "1", "-", "0", "1">>
A_1700 == <<"1", "7", ":", "0", "0">>
A_1800 == <<"1", "8", ":", "0", "0">>
A_1900 == <<"1", "9", ":", "0", "0">>
ReminderArgs ==
    {<<A_text, A_date, A_1700>>, <<A_text, A_date, A_1800>>,
     <<A_text, A_date, A_1900>>, <<A_1900>>}

\* Database.check_subscription of this draft
check_subscriptionC(us, user_id, nowT) ==
    /\ user_id \in DOMAIN us
    /\ us[user_id].subscription_end # None
    /\ fromisoformat(us[user_id].subscription_end).t > nowT

\* a guard that asks the store only, without the administrator's clause
GuardWithoutAdmin(us, user_id, nowT) == check_subscriptionC(us, user_id, nowT)

\* the guard at the head of process_reminders, and of process_finance,
\* process_analytics and the three buttons of the same names
MayUseReminders(us, user_id, nowT) ==
    check_subscriptionC(us, user_id, nowT) \/ user_id = ADMIN_ID

\* an INSERT that stores the row as completed
add_reminder_done(rs, id, user_id, chat_id, due_iso) ==
    [i \in (DOMAIN rs) \cup {id} |->
        IF i = id
        THEN [user_id |-> user_id, chat_id |-> chat_id, due_date |-> due_iso,
              completed |-> TRUE]
        ELSE rs[i]]

\* Database.add_reminder
add_reminder(rs, id, user_id, chat_id, due_iso) ==
    [i \in (DOMAIN rs) \cup {id} |->
        IF i = id
        THEN [user_id |-> user_id, chat_id |-> chat_id, due_date |-> due_iso,
              completed |-> FALSE]
        ELSE rs[i]]

\* Database.get_future_reminders
get_future_reminders(rs) == {i \in DOMAIN rs : ~rs[i].completed}

\* Database.mark_reminder_completed: the UPDATE of the row with this id, if any
mark_reminder_completed(rs, id) ==
    [i \in DOMAIN rs |-> IF i = id THEN [rs[i] EXCEPT !.completed = TRUE] ELSE rs[i]]

\* job_queue.run_once(callback, seconds): the job runs `seconds` from now
run_once(js, id, at) ==
    [i \in (DOMAIN js) \cup {id} |->
        IF i = id THEN [at |-> at, state |-> "scheduled"] ELSE js[i]]

RemoveJob(js, id) == [i \in (DOMAIN js) \ {id} |-> js[i]]

\* ReminderManager.schedule_all over a fresh job queue: a job per row that is
\* not completed, at its due time, or one second from now when that has passed
schedule_all(rs, nowT) ==
    [i \in get_future_reminders(rs) |->
        LET due == fromisoformat(rs[i].due_date) IN
        [at |-> IF due.t - nowT <= 0 THEN nowT ELSE due.t, state |-> "scheduled"]]

\* ReminderManager.delete_reminder of src/telegram-bot/src/reminder.py, the
\* delete this package has for a reminders table with id and user_id
rm_delete_reminder(rs, user_id, reminder_id) ==
    [i \in {j \in DOMAIN rs : ~(j = reminder_id /\ rs[j].user_id = user_id)} |-> rs[i]]

\* process_reminders with arguments, and ReminderManager.add_reminder; us says
\* whether utcnow() lies inside the minute, dbOk = FALSE is an INSERT that raised
ProcessReminders(u, args, us, dbOk) ==
    /\ draft = "C"
    /\ nextId <= MaxReminders
    /\ LET due == IF Len(args) < 2 THEN None ELSE Strptime_Full(JoinLastTwo(args))
           due_iso == isoformat(due)
           accepted == /\ MayUseReminders(users, u, now)
                       /\ due # None
                       /\ ~TsLess(fromisoformat(due_iso), TS(now, us))
                       /\ dbOk
       IN IF accepted
          THEN /\ reminders' = add_reminder(reminders, nextId, u, u, due_iso)
               /\ nextId' = nextId + 1
               /\ jobs' = run_once(jobs, nextId, now + (fromisoformat(due_iso).t - now))
          ELSE UNCHANGED <<reminders, nextId, jobs>>
    /\ UNCHANGED <<draft, now, tz, user_data, passes, sent, failed, deleted, startup>>
    /\ UNCHANGED subVars

\* the job of reminder r fires: _job_callback up to its await
JobBegin(r) ==
    /\ draft = "C"
    /\ r \in DOMAIN jobs
    /\ jobs[r].state = "scheduled"
    /\ jobs[r].at <= now
    /\ jobs' = IF r \notin DOMAIN reminders \/ reminders[r].completed
               THEN RemoveJob(jobs, r)
               ELSE [jobs EXCEPT ![r] = [state |-> "sending"]]
    /\ UNCHANGED <<draft, now, tz, reminders, nextId, user_data, passes, sent, failed,
                   deleted, startup>>
    /\ UNCHANGED subVars

\* send_message returned: mark_reminder_completed (dbOk = FALSE: it raised and
\* the except branch logged it); the job is done
JobSendOk(r, dbOk) ==
    /\ draft = "C"
    /\ r \in DOMAIN jobs
    /\ jobs[r].state = "sending"
    /\ Delivered(sent, MaxReminders) < MaxSent
    /\ sent' = [sent EXCEPT ![r] = @ + 1]
    /\ reminders' = IF dbOk THEN mark_reminder_completed(reminders, r) ELSE reminders
    /\ jobs' = RemoveJob(jobs, r)
    /\ UNCHANGED <<draft, now, tz, nextId, user_data, passes, failed, deleted, startup>>
    /\ UNCHANGED subVars

\* send_message raised: the except branch logs it; the job is done
JobSendFail(r) ==
    /\ draft = "C"
    /\ r \in DOMAIN jobs
    /\ jobs[r].state = "sending"
    /\ failed' = failed \cup {r}
    /\ jobs' = RemoveJob(jobs, r)
    /\ UNCHANGED <<draft, now, tz, reminders, nextId, user_data, passes, sent, deleted,
                   startup>>
    /\ UNCHANGED subVars

\* ReminderManager.delete_reminder(user_id, reminder_id)
DeleteReminderRM(id, u) ==
    /\ draft = "C"
    /\ id < nextId
    /\ reminders' = rm_delete_reminder(reminders, u, id)
    /\ deleted' = NoteDelete(reminders, id, u,
                             IF id \in DOMAIN reminders
                             THEN fromisoformat(reminders[id].due_date).t ELSE NoInt)
    /\ UNCHANGED <<draft, now, tz, nextId, user_data, passes, jobs, sent, failed,
                   startup>>
    /\ UNCHANGED subVars

\* the process stops and LifeAssistantBot.run() runs again: the job queue is
\* new, schedule_all fills it from the table
Run ==
    /\ draft = "C"
    /\ jobs' = schedule_all(reminders, now)
    /\ UNCHANGED <<draft, now, tz, reminders, nextId, user_data, passes, sent, failed,
                   deleted, startup>>
    /\ UNCHANGED subVars

SweepSteps ==
    \/ \E u \in Users, b \in TimeButtons : TimeButton(u, b)
    \/ \E u \in Users, us \in BOOLEAN, dbOk \in BOOLEAN : ReminderText(u, us, dbOk)
    \/ \E u \in Users, phrase \in VoiceTimes, us \in BOOLEAN, dbOk \in BOOLEAN :
          VoiceReminder(u, phrase, us, dbOk)
    \/ \E id \in RemIds, u \in Callers : DeleteReminder(id, u)
    \/ \E p \in Passes, dbOk \in BOOLEAN : SweepStart(p, dbOk)
    \/ \E p \in Passes, dbOk \in BOOLEAN : SendOk(p, dbOk)
    \/ \E p \in Passes : SendFail(p)
    \/ Restart

TimerSteps ==
    \/ \E u \in Users, args \in ReminderArgs, us \in BOOLEAN, dbOk \in BOOLEAN :
          ProcessReminders(u, args, us, dbOk)
    \/ \E r \in RemIds : JobBegin(r)
    \/ \E r \in RemIds, dbOk \in BOOLEAN : JobSendOk(r, dbOk)
    \/ \E r \in RemIds : JobSendFail(r)

\* the reminders of src/bot.py and of life_assistant_bot_full_project.py, each
\* run from its own initial state
DeliveryInit == Init /\ draft \in {"A", "C"}

DeliveryNext ==
    \/ Tick
    \/ SweepSteps
    \/ TimerSteps
    \/ \E id \in RemIds, u \in Callers : DeleteReminderRM(id, u)
    \/ Run

DeliverySpec == DeliveryInit /\ [][DeliveryNext]_vars

\* life_assistant_bot_full_project.py left running: no restart and no delete;
\* the clock goes on, a job whose time has come fires, and a send that can
\* succeed again and again does succeed
TimerInit == Init /\ draft = "C"

TimerRun == Tick \/ TimerSteps

TimerFair ==
    /\ TimerInit
    /\ [][TimerRun]_vars
    /\ WF_vars(Tick)
    /\ \A r \in RemIds : WF_vars(JobBegin(r))
    /\ \A r \in RemIds : SF_vars(JobSendOk(r, TRUE))

-----------------------------------------------------------------------------
(* The users table: src/telegram-bot/src/database.py (SQLite branch) in     *)
(* draft B, Database of life_assistant_bot_full_project.py in draft C       *)

\* datetime.strftime('%Y-%m-%d') and datetime.strptime(text, '%Y-%m-%d'): the
\* text keeps the day, the reader gives its midnight
strftime_date(t) == [day |-> t \div Day]

strptime_date(text) == text.day * Day

\* database.py: add_user, INSERT OR IGNORE
add_user(us, user_id) ==
    [i \in (DOMAIN us) \cup {user_id} |->
        IF i \in DOMAIN us THEN us[i] ELSE [subscription_end |-> None]]

\* database.py: update_subscription(user_id, months)
update_subscription(us, user_id, months, nowT) ==
    LET new_end == IF user_id \in DOMAIN us /\ us[user_id].subscription_end # None
                   THEN strptime_date(us[user_id].subscription_end) + 30 * months * Day
                   ELSE nowT + 30 * months * Day
    IN [i \in DOMAIN us |->
           IF i = user_id THEN [us[i] EXCEPT !.subscription_end = strftime_date(new_end)]
           ELSE us[i]]

\* database.py: check_subscription.  The SQLite column gives the text back and
\* strptime reads it; the PostgreSQL column is DATE and gives a datetime.date,
\* whose comparison with datetime.now() raises TypeError: the except branch
\* returns False
check_subscription(us, user_id, nowT) ==
    \/ user_id = ADMIN_ID
    \/ /\ user_id \in DOMAIN us
       /\ us[user_id].subscription_end # None
       /\ ~is_postgres
       /\ strptime_date(us[user_id].subscription_end) > nowT

\* an add_user that writes the row anew (INSERT OR REPLACE)
replace_userC(us, user_id) ==
    [i \in (DOMAIN us) \cup {user_id} |->
        IF i = user_id THEN [subscription_end |-> None, trial_used |-> FALSE] ELSE us[i]]

\* life_assistant_bot_full_project.py: Database.add_user (the names it updates
\* are not modelled)
add_userC(us, user_id) ==
    [i \in (DOMAIN us) \cup {user_id} |->
        IF i \in DOMAIN us THEN us[i]
        ELSE [subscription_end |-> None, trial_used |-> FALSE]]

\* life_assistant_bot_full_project.py: Database.update_subscription(user_id, days)
update_subscriptionC(us, user_id, days, nowT) ==
    LET end_iso == isoformat(TS(nowT + days * Day, FALSE))
    IN [i \in (DOMAIN us) \cup {user_id} |->
           IF i # user_id THEN us[i]
           ELSE IF i \in DOMAIN us THEN [us[i] EXCEPT !.subscription_end = end_iso]
           ELSE [subscription_end |-> end_iso, trial_used |-> FALSE]]

set_trial_used(us, user_id) ==
    [i \in DOMAIN us |-> IF i = user_id THEN [us[i] EXCEPT !.trial_used = TRUE] ELSE us[i]]

check_trial_used(us, user_id) == user_id \in DOMAIN us /\ us[user_id].trial_used

\* the minute a stored subscription_end stands for, NoInt when there is none
EndMinute(us, user_id) ==
    IF user_id \notin DOMAIN us \/ us[user_id].subscription_end = None THEN NoInt
    ELSE IF draft = "B" THEN strptime_date(us[user_id].subscription_end)
    ELSE fromisoformat(us[user_id].subscription_end).t

\* history of a subscription operation: the end stored before it and after it
Note(op, u, days, answer, usAfter) ==
    [op |-> op, user |-> u, days |-> days, at |-> now, answer |-> answer,
     before |-> EndMinute(users, u), after |-> EndMinute(usAfter, u)]

\* days go by
DayTick ==
    /\ now + TickDays * Day <= MaxDays * Day
    /\ now' = now + TickDays * Day
    /\ UNCHANGED <<draft, users, is_postgres, trials, last>>
    /\ UNCHANGED remVars

\* /start: add_user of the running draft
Start(u) ==
    /\ draft \in {"B", "C"}
    /\ users' = IF draft = "B" THEN add_user(users, u) ELSE add_userC(users, u)
    /\ UNCHANGED <<draft, now, is_postgres, trials, last>>
    /\ UNCHANGED remVars

\* database.py: update_subscription called for a paid period of `months`
Extend(u, months) ==
    /\ draft = "B"
    /\ EndMinute(users, u) <= MaxDays * Day
    /\ users' = update_subscription(users, u, months, now)
    /\ last' = Note("extend", u, 30 * months, "done", users')
    /\ UNCHANGED <<draft, now, is_postgres, trials>>
    /\ UNCHANGED remVars

\* life_assistant_bot_full_project.py: update_subscription called for `days`
ExtendC(u, days) ==
    /\ draft = "C"
    /\ users' = update_subscriptionC(users, u, days, now)
    /\ last' = Note("extend", u, days, "done", users')
    /\ UNCHANGED <<draft, now, is_postgres, trials>>
    /\ UNCHANGED remVars

\* the periods update_subscription(user_id, days) is called for: the trial's,
\* and a paid period of twice its length
Periods == {TRIAL_DAYS, 2 * TRIAL_DAYS}

LedgerInit == Init /\ draft \in {"B", "C"}

LedgerNext ==
    \/ DayTick
    \/ \E u \in Subscribers : Start(u)
    \/ \E u \in Subscribers, months \in 1..MaxMonths : Extend(u, months)
    \/ \E u \in Subscribers, days \in Periods : ExtendC(u, days)

LedgerSpec == LedgerInit /\ [][LedgerNext]_vars

-----------------------------------------------------------------------------
(* life_assistant_bot_full_project.py: /subscribe and the subscribe button  *)

\* The body the two handlers share.  fault names the store write that raised
\* (or at which the process stopped): "update" before update_subscription
\* committed, "flag" before set_trial_used committed, "none" neither.
Subscribe(op, u, fault) ==
    /\ draft = "C"
    /\ IF check_subscriptionC(users, u, now) \/ u = ADMIN_ID
       THEN /\ last' = Note(op, u, 0, "active", users)
            /\ UNCHANGED <<users, trials>>
       ELSE IF ~check_trial_used(users, u)
       THEN /\ trials[u] < MaxTrials
            /\ IF fault = "update"
               THEN /\ last' = Note(op, u, TRIAL_DAYS, "error", users)
                    /\ UNCHANGED <<users, trials>>
               ELSE /\ users' = IF fault = "flag"
                                THEN update_subscriptionC(users, u, TRIAL_DAYS, now)
                                ELSE set_trial_used(
                                        update_subscriptionC(users, u, TRIAL_DAYS, now), u)
                    /\ trials' = [trials EXCEPT ![u] = @ + 1]
                    /\ last' = Note(op, u, TRIAL_DAYS,
                                    IF fault = "flag" THEN "error" ELSE "trial", users')
       ELSE /\ last' = Note(op, u, 0, "pay", users)
            /\ UNCHANGED <<users, trials>>
    /\ UNCHANGED <<draft, now, is_postgres>>
    /\ UNCHANGED remVars

\* process_subscription
ProcessSubscription(u, fault) ==
    /\ u \in Subscribers
    /\ Subscribe("subscribe", u, fault)

\* process_subscription_button
ProcessSubscriptionButton(u, fault) ==
    /\ u \in Subscribers
    /\ Subscribe("subscribe_btn", u, fault)

Faults == {"none", "update", "flag"}

TrialNext ==
    \/ DayTick
    \/ \E u \in Subscribers : Start(u)
    \/ \E u \in Subscribers, fault \in Faults : ProcessSubscription(u, fault)
    \/ \E u \in Subscribers, fault \in Faults : ProcessSubscriptionButton(u, fault)

TrialSpec == TimerInit /\ [][TrialNext]_vars

-----------------------------------------------------------------------------
(* The gated handlers: reminders, finance, analytics and subscribe, by       *)
(* command and by button                                                    *)

\* src/telegram-bot/src/bot.py: the guard at the head of reminders, finance,
\* analytics and of their callbacks, and that of subscribe_callback
HasAccess(us, user_id, nowT) == check_subscription(us, user_id, nowT) \/ user_id = ADMIN_ID

\* the handlers that end after their guard and their reply without a write to
\* the users or the reminders table; /subscribe is one of them in bot.py only
Features == {"reminders", "finance", "analytics", "subscribe"}

\* history of a gated handler: what the store's check answered and what the
\* guard of the handler decided
NoteGate(feature, u, check, access) ==
    [op |-> "gate", feature |-> feature, user |-> u, at |-> now, check |-> check,
     access |-> access, before |-> EndMinute(users, u)]

\* a gated handler of the running draft, called by user u
Gate(feature, u) ==
    /\ draft \in {"B", "C"}
    /\ feature = "subscribe" => draft = "B"
    /\ last' = IF draft = "B"
               THEN NoteGate(feature, u, check_subscription(users, u, now),
                             HasAccess(users, u, now))
               ELSE NoteGate(feature, u, check_subscriptionC(users, u, now),
                             MayUseReminders(users, u, now))
    /\ UNCHANGED <<draft, now, users, is_postgres, trials>>
    /\ UNCHANGED remVars

AccessNext ==
    \/ DayTick
    \/ \E u \in Subscribers : Start(u)
    \/ \E u \in Subscribers, months \in 1..MaxMonths : Extend(u, months)
    \/ \E u \in Subscribers, days \in Periods : ExtendC(u, days)
    \/ \E feature \in Features, u \in Subscribers : Gate(feature, u)
    \/ \E u \in Subscribers, fault \in Faults : ProcessSubscription(u, fault)
    \/ \E u \in Subscribers, fault \in Faults : ProcessSubscriptionButton(u, fault)

AccessSpec == LedgerInit /\ [][AccessNext]_vars

-----------------------------------------------------------------------------
(* src/telegram-bot/src/bot.py and reminder.py: /reminders with arguments   *)

\* ReminderManager.add_reminder of reminder.py: strptime of the date text, then
\* the INSERT; the text stored is strftime('%Y-%m-%d %H:%M:%S') of the date
rm_add_reminder(rs, id, user_id, due_date) ==
    [i \in (DOMAIN rs) \cup {id} |->
        IF i = id
        THEN [user_id |-> user_id, due_date |-> isoformat(due_date), completed |-> FALSE]
        ELSE rs[i]]

\* LifeAssistantBot.reminders of bot.py called with arguments; dbOk = FALSE is
\* an INSERT that raised
RemindersB(u, args, dbOk) ==
    /\ draft = "B"
    /\ nextId <= MaxReminders
    /\ LET due_date == IF Len(args) < 2 THEN None ELSE Strptime_Full(JoinLastTwo(args))
       IN IF HasAccess(users, u, now) /\ due_date # None /\ dbOk
          THEN /\ reminders' = rm_add_reminder(reminders, nextId, u, due_date)
               /\ nextId' = nextId + 1
          ELSE UNCHANGED <<reminders, nextId>>
    /\ UNCHANGED <<draft, now, tz, user_data, passes, jobs, sent, failed, deleted,
                   startup>>
    /\ UNCHANGED subVars

\* the handlers that create reminders, in the three drafts
CreateNext ==
    \/ Tick
    \/ \E u \in Users, b \in TimeButtons : TimeButton(u, b)
    \/ \E u \in Users, us \in BOOLEAN, dbOk \in BOOLEAN : ReminderText(u, us, dbOk)
    \/ \E u \in Users, phrase \in VoiceTimes, us \in BOOLEAN, dbOk \in BOOLEAN :
          VoiceReminder(u, phrase, us, dbOk)
    \/ \E u \in Users, args \in ReminderArgs, dbOk \in BOOLEAN : RemindersB(u, args, dbOk)
    \/ \E u \in Users, args \in ReminderArgs, us \in BOOLEAN, dbOk \in BOOLEAN :
          ProcessReminders(u, args, us, dbOk)

CreateSpec == Init /\ [][CreateNext]_vars

-----------------------------------------------------------------------------
(* The delete of a reminder and what it reports to its caller: src/bot.py   *)
(* in draft A, reminder.py on the table of bot.py's package in draft B      *)

\* ChatDatabase.delete_reminder's result: `cursor.rowcount > 0`
delete_reminder_result(rs, id, user_id) == DeleteMatches(rs, id, user_id) # {}

\* reminder.py, ReminderManager.delete_reminder's result: `return True`
rm_delete_reminder_result(rs, user_id, reminder_id) == TRUE

\* history of a delete call: whether a row of the caller had the id, what the
\* call reported, and whether the table is as it was
NoteDeleteCall(id, u, result, rsAfter) ==
    [op |-> "delete", id |-> id, user |-> u,
     matched |-> (id \in DOMAIN reminders /\ reminders[id].user_id = u),
     result |-> result, kept |-> (rsAfter = reminders)]

\* ChatDatabase.delete_reminder(reminder_id, user_id), with its result
DeleteReminderCall(id, u) ==
    /\ draft = "A"
    /\ reminders' = delete_reminder(reminders, id, u)
    /\ last' = NoteDeleteCall(id, u, delete_reminder_result(reminders, id, u), reminders')
    /\ UNCHANGED <<draft, now, tz, nextId, user_data, passes, jobs, sent, failed,
                   deleted, startup>>
    /\ UNCHANGED <<users, is_postgres, trials>>

\* ReminderManager.delete_reminder(user_id, reminder_id), with its result
DeleteReminderCallRM(id, u) ==
    /\ draft = "B"
    /\ reminders' = rm_delete_reminder(reminders, u, id)
    /\ last' = NoteDeleteCall(id, u, rm_delete_reminder_result(reminders, u, id), reminders')
    /\ UNCHANGED <<draft, now, tz, nextId, user_data, passes, jobs, sent, failed,
                   deleted, startup>>
    /\ UNCHANGED <<users, is_postgres, trials>>

DeleteNext ==
    \/ CreateNext
    \/ \E id \in RemIds, u \in Callers : DeleteReminderCall(id, u)
    \/ \E id \in RemIds, u \in Callers : DeleteReminderCallRM(id, u)

DeleteSpec == Init /\ [][DeleteNext]_vars

-----------------------------------------------------------------------------
(* src/bot.py: parse_reminder_time applied to typed phrases, at the minutes *)
(* the clock goes through and at instants inside them                       *)

\* the text of a number, as typed
DigitChar(d) == CHOOSE c \in DigitChars : DigitVal(c) = d

RECURSIVE Decimal(_)
Decimal(n) == IF n < 10 THEN <<DigitChar(n)>> ELSE Decimal(n \div 10) \o <<DigitChar(n % 10)>>

TwoDigit(n) == <<DigitChar(n \div 10), DigitChar(n % 10)>>

\* the word forms of the units: cas, casa, casov; minut, minutu, minuty; denq,
\* dny, dnej
HourWords == {W_cas, W_cas \o <<"a">>, W_cas \o <<"o", "v">>}
MinuteWords == {W_minut, W_minut \o <<"u">>, W_minut \o <<"y">>}
DayWords == {W_denq, W_dny, W_dnej}
UnitWords == HourWords \cup MinuteWords \cup DayWords

\* the unit a word form names
UnitOf(word) ==
    IF word \in HourWords THEN Hour ELSE IF word \in MinuteWords THEN Minute ELSE Day

\* the amounts and the times of day typed in the model
Amounts == {0, 1, 2, 12}
ClockTimes == {<<0, 0>>, <<17, 0>>, <<18, 0>>, <<18, 30>>, <<19, 0>>, <<23, 59>>}

\* history of a call of the parser: what was typed, the instant of the call
\* and what the parser returned
NoteParse(kind, n, unit, hm, at, result) ==
    [op |-> "parse", kind |-> kind, n |-> n, unit |-> unit, h |-> hm[1], m |-> hm[2],
     at |-> at, result |-> result]

\* parse_reminder_time('cerez N <unit word>')
ParseRelative(n, word, us) ==
    /\ draft = "A"
    /\ last' = NoteParse("relative", n, UnitOf(word), <<0, 0>>, TS(now, us),
                         parse_reminder_time(
                            W_cerez \o <<" ">> \o Decimal(n) \o <<" ">> \o word,
                            TS(now, us)))
    /\ UNCHANGED <<draft, now, users, is_postgres, trials>>
    /\ UNCHANGED remVars

\* parse_reminder_time('HH:MM')
ParseClock(hm, us) ==
    /\ draft = "A"
    /\ last' = NoteParse("clock", 0, Minute, hm, TS(now, us),
                         parse_reminder_time(
                            TwoDigit(hm[1]) \o <<":">> \o TwoDigit(hm[2]), TS(now, us)))
    /\ UNCHANGED <<draft, now, users, is_postgres, trials>>
    /\ UNCHANGED remVars

\* parse_reminder_time('zavtra HH:MM')
ParseTomorrow(hm, us) ==
    /\ draft = "A"
    /\ last' = NoteParse("tomorrow", 0, Minute, hm, TS(now, us),
                         parse_reminder_time(
                            W_zavtra \o <<" ">> \o TwoDigit(hm[1]) \o <<":">>
                                \o TwoDigit(hm[2]),
                            TS(now, us)))
    /\ UNCHANGED <<draft, now, users, is_postgres, trials>>
    /\ UNCHANGED remVars

ParseInit == Init /\ draft = "A" /\ tz = 0

ParseNext ==
    \/ Tick
    \/ \E n \in Amounts, word \in UnitWords, us \in BOOLEAN : ParseRelative(n, word, us)
    \/ \E hm \in ClockTimes, us \in BOOLEAN : ParseClock(hm, us)
    \/ \E hm \in ClockTimes, us \in BOOLEAN : ParseTomorrow(hm, us)

ParseSpec == ParseInit /\ [][ParseNext]_vars

-----------------------------------------------------------------------------
(* src/bot.py: reminder_text_handler for a conversation whose reminder_time *)
(* is a typed phrase, recognized or not                                     *)

\* phrases of none of the parser's forms: 'cerez' alone, with a second token
\* that has no digit, with a unit the parser does not know ('let'); a word;
\* nothing; a time of day that no clock shows; 'zavtra' without a time
U_cerez_cas == W_cerez \o <<" ">> \o W_cas
U_cerez_5_let == W_cerez \o <<" ", "5", " ", "l", "e", "t">>
U_word == <<"a", "b", "c">>
U_2500 == <<"2", "5", ":", "0", "0">>
Unrecognized == {W_cerez, U_cerez_cas, U_cerez_5_let, U_word, <<>>, U_2500, W_zavtra}

\* what is typed in the model
TypedPhrases == Unrecognized \cup {T_cerez_1_cas, T_1830}

\* history of a create request: the phrase, what the parser returned for it
\* and whether the reminders table has a new row
NoteCreate(phrase, at, result, rsAfter) ==
    [op |-> "create", phrase |-> phrase, at |-> at, result |-> result,
     stored |-> (rsAfter # reminders)]

\* reminder_text_handler: parse_reminder_time, then create_reminder when the
\* parser returned a time; dbOk = FALSE is create_reminder's except branch
CreateRequest(u, phrase, us, dbOk) ==
    /\ draft = "A"
    /\ nextId <= MaxReminders
    /\ CreateFrom(u, phrase, us, dbOk)
    /\ last' = NoteCreate(phrase, TS(now, us), parse_reminder_time(phrase, TS(now, us)),
                          reminders')
    /\ UNCHANGED <<draft, now, tz, user_data, passes, jobs, sent, failed, deleted,
                   startup>>
    /\ UNCHANGED <<users, is_postgres, trials>>

RequestNext ==
    \/ Tick
    \/ \E u \in Users, phrase \in TypedPhrases, us \in BOOLEAN, dbOk \in BOOLEAN :
          CreateRequest(u, phrase, us, dbOk)

RequestSpec == ParseInit /\ [][RequestNext]_vars

-----------------------------------------------------------------------------
(* The life of a reminder row in the three drafts: created, completed,      *)
(* deleted                                                                  *)

\* reminder.py, ReminderManager.complete_reminder: the UPDATE of the caller's
\* row with this id, if any
rm_complete_reminder(rs, user_id, reminder_id) ==
    [i \in DOMAIN rs |->
        IF i = reminder_id /\ rs[i].user_id = user_id
        THEN [rs[i] EXCEPT !.completed = TRUE] ELSE rs[i]]

\* ReminderManager.complete_reminder(user_id, reminder_id)
CompleteReminderRM(id, u) ==
    /\ draft = "B"
    /\ reminders' = rm_complete_reminder(reminders, u, id)
    /\ UNCHANGED <<draft, now, tz, nextId, user_data, passes, jobs, sent, failed,
                   deleted, startup>>
    /\ UNCHANGED subVars

LifecycleNext ==
    \/ DeliveryNext
    \/ \E u \in Users, args \in ReminderArgs, dbOk \in BOOLEAN : RemindersB(u, args, dbOk)
    \/ \E id \in RemIds, u \in Callers : CompleteReminderRM(id, u)
    \/ \E id \in RemIds, u \in Callers : DeleteReminderCallRM(id, u)

LifecycleSpec == Init /\ [][LifecycleNext]_vars

-----------------------------------------------------------------------------
(* src/bot.py: reminder_worker fires every 60 seconds and starts            *)
(* check_reminders as a task of its own, whether the task of the firing     *)
(* before has ended or not.  DeliverySpec runs one task at a time; here two *)
(* tasks run side by side.                                                  *)

OverlapPasses == {1, 2}

OverlapInit ==
    /\ draft = "A"
    /\ now \in StartTimes
    /\ tz \in TzOffsets
    /\ reminders = <<>>
    /\ nextId = 1
    /\ user_data = [u \in Users |-> <<>>]
    /\ passes = [p \in OverlapPasses |-> IdlePass]
    /\ jobs = <<>>
    /\ users = <<>>
    /\ is_postgres = FALSE
    /\ sent = [r \in RemIds |-> 0]
    /\ failed = {}
    /\ deleted = <<>>
    /\ startup = [due |-> {}, first |-> "pending", missed |-> {}]
    /\ trials = [u \in Subscribers |-> 0]
    /\ last = None

OverlapNext ==
    \/ Tick
    \/ \E u \in Users, b \in TimeButtons : TimeButton(u, b)
    \/ \E u \in Users, us \in BOOLEAN, dbOk \in BOOLEAN : ReminderText(u, us, dbOk)
    \/ \E u \in Users, phrase \in VoiceTimes, us \in BOOLEAN, dbOk \in BOOLEAN :
          VoiceReminder(u, phrase, us, dbOk)
    \/ \E p \in OverlapPasses, dbOk \in BOOLEAN : SweepStart(p, dbOk)
    \/ \E p \in OverlapPasses, dbOk \in BOOLEAN : SendOk(p, dbOk)
    \/ \E p \in OverlapPasses : SendFail(p)

OverlapSpec == OverlapInit /\ [][OverlapNext]_vars

-----------------------------------------------------------------------------
(* Properties *)

\* the completed flag of reminder r, FALSE when the row is not stored
Completed(r) ==
    /\ r \in DOMAIN reminders
    /\ IF draft = "A" THEN reminders[r].is_completed ELSE reminders[r].completed

\* the minute reminder r is due, NoInt when the id was never handed out
DueMinute(r) ==
    IF r \in DOMAIN reminders
    THEN IF draft = "A" THEN reminders[r].time.minute
         ELSE fromisoformat(reminders[r].due_date).t
    ELSE IF r \in DOMAIN deleted THEN deleted[r]
    ELSE NoInt

\* a pass that is under way holds r among the rows it still has to go through,
\* or the job of r is inside its send
Selected(r) ==
    \/ \E p \in Passes :
          /\ passes[p].state = "sending"
          /\ \E i \in 1..Len(passes[p].queue) : passes[p].queue[i].id = r
    \/ r \in DOMAIN jobs /\ jobs[r].state = "sending"

\* the send of a message for r is under way: a pass stands at its await with
\* r's row, or the job of r does
Sending(r) ==
    \/ \E p \in Passes :
          passes[p].state = "sending" /\ Head(passes[p].queue).id = r
    \/ r \in DOMAIN jobs /\ jobs[r].state = "sending"

\* a further attempt for r is ahead without a restart: the sweep's query
\* returns r or a pass holds it, or the job queue has a job for r
AttemptAhead(r) ==
    IF draft = "A" THEN r \in ActiveDue(reminders, now - tz) \/ Selected(r)
    ELSE r \in DOMAIN jobs

\* C1: across sweeps and timer firings, with sends and store writes succeeding
\* or failing, no reminder has more than one message delivered.
C1_AtMostOneMessage == \A r \in RemIds : sent[r] <= 1

\* C2: under the fair run of the timers, every stored, not completed reminder
\* whose due time has come is eventually delivered, exactly once.
C2_EventuallyDelivered ==
    \A r \in RemIds :
        (r \in DOMAIN reminders /\ ~Completed(r) /\ DueMinute(r) <= now) ~> (sent[r] = 1)

\* C3: a message for reminder r is delivered only in a step taken when the
\* clock has reached r's due time: now >= r.due.
C3_NoSendBeforeDue ==
    [][\A r \in RemIds :
          sent'[r] > sent[r] => (DueMinute(r) # NoInt /\ DueMinute(r) <= now)]_vars

C3_SentInDueMinute ==
    \E r \in RemIds : sent[r] = 1 /\ DueMinute(r) = now /\ ~Selected(r)

\* C4: a step that delivers no message for r, a send that failed among them,
\* leaves r's completed flag false: the flag is still false when the pass ends.
C4_FailedSendNotCompleted ==
    [][\A r \in RemIds :
          (sent'[r] = sent[r] /\ ~Completed(r)) => ~Completed(r)']_vars

C4_FailedAndStillOpen ==
    \E r \in failed :
        /\ r \in DOMAIN reminders
        /\ ~Completed(r)
        /\ sent[r] = 0
        /\ ~Selected(r)

\* C5: a stored, not completed reminder whose send failed has a further
\* attempt ahead of it without a restart of the process.
C5_FailedSendRetried ==
    \A r \in failed : (r \in DOMAIN reminders /\ ~Completed(r)) => AttemptAhead(r)

\* C6: when the first pass after a process start has gone through its rows,
\* none of the not-completed reminders that were past due at the start is
\* left without a message.
C6_NoneSkippedAfterRestart == startup.missed = {}

\* C7: once the owner's delete of reminder r has returned, no pass takes r up
\* and no job of r starts its send: a message for r can only come from a pass
\* or a send that held r before.
C7_NoSendAfterDelete ==
    [][\A r \in DOMAIN deleted :
          /\ Selected(r)' => Selected(r)
          /\ sent'[r] > sent[r] => Selected(r)]_vars

C7_LaterPassSkipsDeleted ==
    \E r \in DOMAIN deleted, p \in Passes :
        /\ sent[r] = 0
        /\ r \notin failed
        /\ passes[p].state = "sending"
        /\ deleted[r] < Head(passes[p].queue).time.minute

\* C8: after an extension by d days of a subscription whose end lay in the
\* future, now + k, the stored end is now + k + d.
C8_ExtensionAddsToFutureEnd ==
    (last # None /\ last.op = "extend" /\ last.before > last.at)
        => last.after = last.before + last.days * Day

\* C9: after an extension by d days of a subscription whose end had passed or
\* was absent, the end it stored lies on the day of now + d.
C9_ExtensionFromNowWhenExpired ==
    (last # None /\ last.op = "extend" /\ last.after # NoInt /\ last.before <= last.at)
        => last.after \div Day = (last.at + last.days * Day) \div Day

\* C10: over any sequence of subscribe requests, by command or by button, no
\* user has the trial period written more than once.
C10_TrialAtMostOnce == \A u \in Subscribers : trials[u] <= 1

C12_AdminAlwaysHasAccess ==
    (last # None /\ last.user = ADMIN_ID)
        => /\ last.op = "gate" => last.access
           /\ last.op \in {"subscribe", "subscribe_btn"} => last.answer = "active"

C12_AdminPassesWhenExpired ==
    /\ last # None
    /\ last.op = "gate"
    /\ last.user = ADMIN_ID
    /\ last.before # NoInt
    /\ last.before <= last.at
    /\ last.access

\* C13: a create whose due time is not strictly after now is rejected: every
\* step that stores a reminder, or schedules a job for one, does so for a due
\* time strictly after the now of that step.
C13_CreatedOnlyInFuture ==
    [][\A r \in RemIds :
          (\/ r \notin DOMAIN reminders /\ r \in DOMAIN reminders'
           \/ r \notin DOMAIN jobs /\ r \in DOMAIN jobs')
              => DueMinute(r)' > now]_vars

\* C14: once reminder r is marked completed, no sweep pass takes r up and no
\* job of r starts its send, however many passes and firings follow: a message
\* for r can only come from a send that was under way before.
C14_CompletedNeverSentAgain ==
    [][\A r \in RemIds :
          Completed(r) => /\ Selected(r)' => Selected(r)
                          /\ sent'[r] > sent[r] => Selected(r)]_vars

C14_LaterPassSkipsCompleted ==
    \E r \in RemIds, p \in Passes :
        /\ Completed(r)
        /\ sent[r] = 1
        /\ passes[p].state = "sending"
        /\ TextLess(Head(passes[p].queue).time, reminders[r].time)
        /\ reminders[r].time.minute <= now
        /\ ~Selected(r)

\* C15: a send that succeeded marks its reminder completed in the same step:
\* in no state has a stored reminder had a message delivered, every pass and
\* every send ended, and its completed flag still false.
C15_SentIsCompleted ==
    \A r \in RemIds :
        (/\ sent[r] > 0
         /\ r \in DOMAIN reminders
         /\ \A p \in Passes : passes[p].state = "idle"
         /\ ~Selected(r))
            => Completed(r)

\* C16: a delivery attempt looks at the reminder again immediately before it
\* sends: a send for r begins only while r is stored and not completed, also
\* when r's delete came after a pass had selected r.
C16_SendBeginsOnlyForStored ==
    [][\A r \in RemIds :
          (Sending(r)' /\ ~Sending(r)) => (r \in DOMAIN reminders /\ ~Completed(r))]_vars

\* C17: a delete that names an id no stored reminder has, or a reminder of
\* another user, leaves the table as it was and reports failure to its caller.
C17_ForeignDeleteDeclined ==
    (last # None /\ last.op = "delete" /\ ~last.matched)
        => (last.kept /\ ~last.result)

\* C18: for 'zavtra HH:MM' with a well-formed HH:MM the parser returns HH:MM,
\* seconds zero, on the day after the day of now, and not None.
C18_TomorrowAtTime ==
    (last # None /\ last.op = "parse" /\ last.kind = "tomorrow")
        => last.result = TS(((last.at.t \div Day) + 1) * Day + last.h * Hour
                               + last.m * Minute, FALSE)

\* C19: for a bare 'HH:MM' the parser returns today at HH:MM when that is
\* strictly after now and one day later otherwise, so also when today at HH:MM
\* is now itself: the result is always strictly after now.
C19_ClockTimeStrictlyAhead ==
    (last # None /\ last.op = "parse" /\ last.kind = "clock")
        => LET today == TS((last.at.t \div Day) * Day + last.h * Hour
                              + last.m * Minute, FALSE)
           IN /\ last.result = IF TsLess(last.at, today) THEN today
                               ELSE TS(today.t + Day, FALSE)
              /\ TsLess(last.at, last.result)

\* C20: for 'cerez N <unit word>', N >= 0, in every word form of hour, minute
\* and day, the parser returns exactly now + N units of the word, whatever the
\* time of day of now.
C20_RelativeIsNowPlusN ==
    (last # None /\ last.op = "parse" /\ last.kind = "relative")
        => last.result = TS(last.at.t + last.n * last.unit, last.at.us)

C20_TwelveHoursPastMidnight ==
    /\ last # None
    /\ last.op = "parse"
    /\ last.kind = "relative"
    /\ last.unit = Hour
    /\ last.n = 12
    /\ last.at.us
    /\ last.at.t > 1080
    /\ last.result = TS(last.at.t + 12 * Hour, TRUE)
    /\ last.result.t \div Day > last.at.t \div Day

\* C21: for a phrase of none of the recognized forms, 'cerez' without digits in
\* its second token or with an unknown unit among them, the parser returns
\* None and the create request stores no reminder: the table is unchanged.
C21_UnrecognizedStoresNothing ==
    (last # None /\ last.op = "create" /\ last.phrase \in Unrecognized)
        => (last.result = None /\ ~last.stored)

C21_UnknownUnitAfterStoredOne ==
    /\ last # None
    /\ last.op = "create"
    /\ last.phrase = U_cerez_5_let
    /\ last.result = None
    /\ ~last.stored
    /\ nextId = 2
    /\ DOMAIN reminders = {1}

\* C22: a pass that starts with now at or after the due time of a stored,
\* not completed reminder attempts it: the pass holds the reminder when it
\* reaches its first send, whatever the offset of local time from UTC.
C22_DuePassAttempts ==
    [][\A p \in Passes :
          SweepStart(p, TRUE)
              => \A r \in DOMAIN reminders :
                    (~Completed(r) /\ DueMinute(r) <= now) => Selected(r)']_vars

\* C23: the stored subscription end of a user never decreases: after every
\* trial grant and every extension it is at or after the end stored before.
C23_EndNeverDecreases ==
    [][\A u \in Subscribers :
          EndMinute(users, u) # NoInt => EndMinute(users', u) >= EndMinute(users, u)]_vars

\* C24: once the trial-used flag of a user is true it is true in every later
\* state, whatever start, subscribe, trial and extension operations follow.
C24_TrialUsedStaysTrue ==
    [][\A u \in Subscribers :
          (draft = "C" /\ check_trial_used(users, u)) => check_trial_used(users', u)]_vars

C24_ExtendedAfterTrialUsed ==
    /\ draft = "C"
    /\ last # None
    /\ last.op = "extend"
    /\ check_trial_used(users, last.user)
    /\ last.before # NoInt
    /\ last.before <= last.at

\* C25: a reminder is stored with its completed flag false, and the flag only
\* goes from false to true: a completed reminder stays completed for as long
\* as its row is stored.
C25_CompletedIsTerminal ==
    [][\A r \in RemIds :
          /\ (r \notin DOMAIN reminders /\ r \in DOMAIN reminders') => ~Completed(r)'
          /\ (Completed(r) /\ r \in DOMAIN reminders') => Completed(r)']_vars

C25_CompletedKeptByForeignDelete ==
    /\ draft = "B"
    /\ last # None
    /\ last.op = "delete"
    /\ ~last.matched
    /\ last.kept
    /\ Completed(last.id)

\* C26: a failure at one reminder of a pass, a send that raised or a stored
\* time the pass cannot read, leaves the other due reminders of that pass to
\* be delivered: the pass still holds every due, readable row it selected.
C26_FailureLeavesOthers ==
    [][\A p \in Passes :
          /\ SendFail(p)
                => \A r \in DOMAIN reminders :
                      (\E i \in 2..Len(passes[p].queue) :
                          /\ passes[p].queue[i].id = r
                          /\ Strptime_Stored(passes[p].queue[i].time) # None
                          /\ passes[p].queue[i].time.minute <= now)
                          => Selected(r)'
          /\ SweepStart(p, TRUE)
                => \A r \in ActiveDue(reminders, now - tz) :
                      (/\ Strptime_Stored(reminders[r].time) # None
                       /\ reminders[r].time.minute <= now)
                          => Selected(r)']_vars

\* C27: when two passes overlap, they never both send the same reminder: in
\* no state do two passes stand at the send of the same reminder.
C27_OverlapSendsOnce ==
    \A p \in OverlapPasses, q \in OverlapPasses :
        (/\ p # q
         /\ passes[p].state = "sending"
         /\ passes[q].state = "sending")
            => Head(passes[p].queue).id # Head(passes[q].queue).id

\* C28: every time the parser returns and create_reminder stores is read back
\* by the sweep as the same moment, from whatever form of phrase it came and
\* also when it carries a fraction of a second.
C28_StoredTimeReadsBack ==
    (last # None /\ last.op = "create" /\ last.stored)
        => /\ Strptime_Stored(reminders[nextId - 1].time) # None
           /\ Strptime_Stored(reminders[nextId - 1].time).t = last.result.t

\* C29: immediately after an extension by a positive period the access check
\* of that user answers true, with or without a row stored for the user and
\* whatever end was stored before: none, one ahead, one long passed.
C29_AccessRightAfterExtension ==
    (last # None /\ last.op = "extend" /\ last.days > 0 /\ last.at = now)
        => IF draft = "B" THEN check_subscription(users, last.user, now)
           ELSE check_subscriptionC(users, last.user, now)

\* C30: the trial grant is atomic: in no stored state has a trial period been
\* written for a user whose trial-used flag is still false, also when the
\* grant fails or stops between its two writes.
C30_TrialWrittenWithFlag ==
    \A u \in Subscribers : trials[u] > 0 => check_trial_used(users, u)

=============================================================================
